---- MODULE Spec2Model ----
(***************************************************************************)
(* Model of the revenue simulator script (src/code.py).                    *)
(*                                                                         *)
(* The script is re-executed from its first line on every input change.    *)
(* One execution reads the five sidebar inputs, runs the 36-iteration      *)
(* simulation loop, builds the data frame and computes the KPI summary.    *)
(*                                                                         *)
(* Numbers.  The script computes with Python ints and floats.  The model   *)
(* computes the same expressions over exact rationals [n, d] in lowest     *)
(* terms with d > 0, in the order the code evaluates them.  Binary         *)
(* floating-point representation error (below 1e-9 relative on every       *)
(* quantity here) is the one thing not modelled.                           *)
(***************************************************************************)
EXTENDS Integers, Sequences, FiniteSets

VARIABLES
    pc,                          \* position of the script: "loop", "kpi", "done"
    runs,                        \* number of script executions started so far
    initial_buyers,              \* sidebar input 1
    monthly_growth,              \* sidebar input 2
    meeting_fee,                 \* sidebar input 3
    commission_rate,             \* sidebar input 4, as a fraction
    commission_duration_months,  \* sidebar input 5, in months
    i,                           \* enumerate() index of the next loop iteration
    simulation_data,             \* list of month records
    new_deals_history,           \* list of unrounded new-deal counts
    loc,                         \* loop-body names: <<>> while unbound, else <<bindings>>
    kpi                          \* KPI names: <<>> while unbound, else <<bindings>>

vars == <<pc, runs, initial_buyers, monthly_growth, meeting_fee, commission_rate,
          commission_duration_months, i, simulation_data, new_deals_history, loc, kpi>>

-----------------------------------------------------------------------------
(* Exact rational arithmetic standing for Python's numeric operators.      *)

Abs(x) == IF x < 0 THEN -x ELSE x

Max(a, b) == IF a >= b THEN a ELSE b

RECURSIVE GCD(_, _)
GCD(a, b) == IF b = 0 THEN a ELSE GCD(b, a % b)

\* The rational n/d in lowest terms with a positive denominator (d # 0).
Rat(n, d) ==
    LET g == GCD(Abs(n), Abs(d))
        s == IF d < 0 THEN -1 ELSE 1
    IN  [n |-> s * (n \div g), d |-> s * (d \div g)]

FromInt(k) == [n |-> k, d |-> 1]

\* x + y, over the least common denominator.
Add(x, y) ==
    LET g == GCD(x.d, y.d)
    IN  Rat(x.n * (y.d \div g) + y.n * (x.d \div g), x.d * (y.d \div g))

\* x * y, cross-reduced before multiplying.
Mul(x, y) ==
    LET g1 == GCD(Abs(x.n), y.d)
        g2 == GCD(Abs(y.n), x.d)
    IN  Rat((x.n \div g1) * (y.n \div g2), (x.d \div g2) * (y.d \div g1))

\* x / y for y # 0.
Div(x, y) ==
    Mul(x, IF y.n < 0 THEN [n |-> -y.d, d |-> -y.n] ELSE [n |-> y.d, d |-> y.n])

Leq(x, y) == x.n * y.d <= y.n * x.d

IsZero(x) == x.n = 0

\* Python round(x, 1): the nearest multiple of 1/10, an exact half going to
\* the even tenth.  (Where a float product falls a rounding error away from an
\* exact half, Python may round it to the other neighbouring tenth.)
Round1(x) ==
    LET t == Abs(x.n) * 10
        q == t \div x.d
        r == t % x.d
        up == IF 2 * r > x.d THEN 1
              ELSE IF 2 * r < x.d THEN 0
              ELSE q % 2
        s == IF x.n < 0 THEN -1 ELSE 1
    IN  Rat(s * (q + up), 10)

\* Python int(x): truncation toward zero.
Trunc(x) == IF x.n < 0 THEN -(Abs(x.n) \div x.d) ELSE x.n \div x.d

\* Python sum(list): left fold from 0.  (The test acc.d > 0 always holds; it
\* makes the accumulator a value before the next element is added.)
RECURSIVE SumFrom(_, _, _)
SumFrom(acc, s, k) ==
    IF acc.d > 0 /\ k > Len(s) THEN acc ELSE SumFrom(Add(acc, s[k]), s, k + 1)

Sum(s) == SumFrom(FromInt(0), s, 1)

\* Python list[start:] for start >= 0.
SliceFrom(s, start) ==
    IF start >= Len(s) THEN <<>> ELSE SubSeq(s, start + 1, Len(s))

-----------------------------------------------------------------------------
(* Strings: str(year) and strftime("%Y-%m"), as sequences of characters.   *)

DigitChar(k) == <<"0", "1", "2", "3", "4", "5", "6", "7", "8", "9">>[k + 1]

\* str(k) for an integer k >= 0.
RECURSIVE Str(_)
Str(k) == IF k < 10 THEN <<DigitChar(k)>> ELSE Append(Str(k \div 10), DigitChar(k % 10))

\* Zero-padded decimal of width w.
RECURSIVE Pad(_, _)
Pad(k, w) == IF w = 0 THEN <<>> ELSE Append(Pad(k \div 10, w - 1), DigitChar(k % 10))

\* date.strftime("%Y-%m")
Strftime(date) == Pad(date.year, 4) \o <<"-">> \o Pad(date.month, 2)

-----------------------------------------------------------------------------
(* Sidebar inputs.  Each slider offers min, min+step, ... up to max; the   *)
(* model draws the first few positions of each slider and its default.     *)

BuyerPositions == 1
GrowthPositions == 1
FeePositions == 1
RatePositions == 1
MaxRuns == 2

SliderValues(min, max, step, count, default) ==
    {v \in {min + step * k : k \in 0..(count - 1)} \cup {default} : v >= min /\ v <= max}

initial_buyers_slider == SliderValues(10, 500, 10, BuyerPositions, 50)

monthly_growth_slider == SliderValues(1, 50, 1, GrowthPositions, 2)

meeting_fee_slider == SliderValues(100, 5000, 100, FeePositions, 1000)

\* The slider runs from 0.5 to 10.0 in steps of 0.1: positions are in tenths.
commission_rate_percent_slider ==
    {Rat(t, 10) : t \in SliderValues(5, 100, 1, RatePositions, 10)}

commission_duration_years_slider == 1..5

CommissionRate(commission_rate_percent) == Div(commission_rate_percent, FromInt(100))

CommissionDurationMonths(commission_duration_years) == commission_duration_years * 12

-----------------------------------------------------------------------------
(* Simulation engine.                                                      *)

TICKET_SIZE == 100000

CONVERSION_RATE == Rat(20, 100)

Periods == 36

StartDate == [year |-> 2026, month |-> 1, day |-> 1]

\* Variant: December is followed by January of the same year.
MonthBeginSameYear(date) ==
    [year |-> date.year, month |-> (date.month % 12) + 1, day |-> 1]

\* The next month start after a month-start date (freq='MS').
MonthBegin(date) ==
    IF date.month = 12
    THEN [year |-> date.year + 1, month |-> 1, day |-> 1]
    ELSE [year |-> date.year, month |-> date.month + 1, day |-> 1]

\* pd.date_range(start, periods, freq='MS') for a month-start date.
RECURSIVE DateRange(_, _)
DateRange(start, periods) ==
    IF periods <= 0 THEN <<>> ELSE <<start>> \o DateRange(MonthBegin(start), periods - 1)

dates == DateRange(StartDate, Periods)

\* Variant: the third tier is missing.
ActivityPerMonthTwoTiers(year) ==
    IF year = 2026 THEN Div(FromInt(3), FromInt(12)) ELSE Div(FromInt(6), FromInt(12))

ActivityPerMonth(year) ==
    IF year = 2026 THEN Div(FromInt(3), FromInt(12))
    ELSE IF year = 2027 THEN Div(FromInt(6), FromInt(12))
    ELSE Div(FromInt(10), FromInt(12))

CurrentBuyers(ib, month_idx, mg) == ib + (month_idx * mg)

\* Variant: + typed for *.
NewDealsPlus(monthly_meetings) == Add(monthly_meetings, CONVERSION_RATE)

NewDeals(monthly_meetings) == Mul(monthly_meetings, CONVERSION_RATE)

\* Variant: the history keeps the displayed, one-decimal value.
AppendRoundedNewDeals(history, new_deals) == Append(history, Round1(new_deals))

\* Variant: the history is kept as a sliding window that drops expired months.
AppendSlidingWindow(history, new_deals) ==
    LET h == Append(history, new_deals)
    IN  SliceFrom(h, Max(0, Len(h) - Max(1, commission_duration_months)))

AppendNewDeals(history, new_deals) == Append(history, new_deals)

\* Variant: the window reaches one month too far back.
StartIdxOneEarlier(history, cdm) == Max(0, Len(history) - cdm - 1)

StartIdx(history, cdm) == Max(0, Len(history) - cdm)

ActiveRecurringDeals(history, start_idx) == Sum(SliceFrom(history, start_idx))

RevenueCommission(active_recurring_deals, cr) ==
    Mul(Mul(active_recurring_deals, FromInt(TICKET_SIZE)), cr)

\* Variant: the commission is subtracted.
TotalRevenueNet(revenue_meeting, revenue_commission) ==
    Add(revenue_meeting, Mul(FromInt(-1), revenue_commission))

TotalRevenue(revenue_meeting, revenue_commission) == Add(revenue_meeting, revenue_commission)

\* Variant: a month with negative revenue is left out.
AppendRowNonNegative(data, row) ==
    IF row.TotalRevenue.n < 0 THEN data ELSE Append(data, row)

AppendRow(data, row) == Append(data, row)

\* One iteration of the loop body for enumerate index idx and its date, on the
\* history list as it stands: the names it binds, the history after the append,
\* and the record appended to simulation_data.
Month(idx, date, history, ib, mg, mf, cr, cdm) ==
    LET year == date.year
        month_idx == idx
        activity_per_month == ActivityPerMonth(year)
        current_buyers == CurrentBuyers(ib, month_idx, mg)
        monthly_meetings == Mul(FromInt(current_buyers), activity_per_month)
        revenue_meeting == Mul(monthly_meetings, FromInt(mf))
        new_deals == NewDeals(monthly_meetings)
        history2 == AppendNewDeals(history, new_deals)
        start_idx == StartIdx(history2, cdm)
        active_recurring_deals == ActiveRecurringDeals(history2, start_idx)
        revenue_commission == RevenueCommission(active_recurring_deals, cr)
        total_revenue == TotalRevenue(revenue_meeting, revenue_commission)
    IN  [names |-> [year |-> year,
                    month_idx |-> month_idx,
                    activity_per_month |-> activity_per_month,
                    current_buyers |-> current_buyers,
                    monthly_meetings |-> monthly_meetings,
                    revenue_meeting |-> revenue_meeting,
                    new_deals |-> new_deals,
                    start_idx |-> start_idx,
                    active_recurring_deals |-> active_recurring_deals,
                    revenue_commission |-> revenue_commission,
                    total_revenue |-> total_revenue],
         history |-> history2,
         row |-> [Date |-> date,
                  Year |-> Str(year),
                  YearMonth |-> Strftime(date),
                  ActiveBuyers |-> Trunc(FromInt(current_buyers)),
                  MonthlyMeetings |-> Round1(monthly_meetings),
                  NewDeals |-> Round1(new_deals),
                  CumulativeActiveDeals |-> Round1(active_recurring_deals),
                  MeetingRevenue |-> revenue_meeting,
                  CommissionRevenue |-> revenue_commission,
                  TotalRevenue |-> total_revenue]]

-----------------------------------------------------------------------------
(* KPI summary over the data frame.                                        *)

\* df[col].sum()
RECURSIVE ColumnSumFrom(_, _, _, _)
ColumnSumFrom(acc, df, col, k) ==
    IF acc.d > 0 /\ k > Len(df) THEN acc
    ELSE ColumnSumFrom(Add(acc, df[k][col]), df, col, k + 1)

ColumnSum(df, col) == ColumnSumFrom(FromInt(0), df, col, 1)

\* Variant: the filter names the wrong year.
Rows2029(df) == SelectSeq(df, LAMBDA row : row.Year = <<"2", "0", "2", "9">>)

\* df[df["Year"] == "2028"]
Rows2028(df) == SelectSeq(df, LAMBDA row : row.Year = <<"2", "0", "2", "8">>)

\* Division of two float64 scalars: a zero divisor yields nan or a signed
\* infinity (with a warning), never an exception.
Float64Divide(x, y) ==
    IF ~IsZero(y) THEN [kind |-> "finite", val |-> Div(x, y)]
    ELSE IF IsZero(x) THEN [kind |-> "nan", val |-> FromInt(0)]
    ELSE IF x.n > 0 THEN [kind |-> "inf", val |-> FromInt(0)]
    ELSE [kind |-> "-inf", val |-> FromInt(0)]

Float64Times(f, k) ==
    IF f.kind = "finite" THEN [kind |-> "finite", val |-> Mul(f.val, FromInt(k))] ELSE f

KpiSummary(df) ==
    LET total_revenue_3yr == ColumnSum(df, "TotalRevenue")
        revenue_2028 == ColumnSum(Rows2028(df), "TotalRevenue")
        avg_monthly_rev_2028 == Div(revenue_2028, FromInt(12))
        commission_share_2028 ==
            Float64Times(Float64Divide(ColumnSum(Rows2028(df), "CommissionRevenue"),
                                       revenue_2028), 100)
    IN  [total_revenue_3yr |-> total_revenue_3yr,
         revenue_2028 |-> revenue_2028,
         avg_monthly_rev_2028 |-> avg_monthly_rev_2028,
         commission_share_2028 |-> commission_share_2028,
         final_active_buyers |-> df[Len(df)].ActiveBuyers]

-----------------------------------------------------------------------------
(* Script execution.                                                       *)

\* Variant: the history list survives from the previous execution.
BeginKeepHistory(ib, mg, mf, cr, cdm) ==
    /\ initial_buyers' = ib
    /\ monthly_growth' = mg
    /\ meeting_fee' = mf
    /\ commission_rate' = cr
    /\ commission_duration_months' = cdm
    /\ simulation_data' = <<>>
    /\ new_deals_history' = new_deals_history
    /\ i' = 0
    /\ loc' = <<>>
    /\ kpi' = <<>>
    /\ pc' = IF Len(dates) = 0 THEN "kpi" ELSE "loop"

\* A script execution begins: the inputs are read and the lists are created
\* empty; no loop or KPI name is bound yet.
Begin(ib, mg, mf, cr, cdm) ==
    /\ initial_buyers' = ib
    /\ monthly_growth' = mg
    /\ meeting_fee' = mf
    /\ commission_rate' = cr
    /\ commission_duration_months' = cdm
    /\ simulation_data' = <<>>
    /\ new_deals_history' = <<>>
    /\ i' = 0
    /\ loc' = <<>>
    /\ kpi' = <<>>
    /\ pc' = IF Len(dates) = 0 THEN "kpi" ELSE "loop"

\* The user moves one slider (or triggers a rerun with every input as it was)
\* and the script executes again from its first line, whatever the previous
\* execution had reached.
Rerun ==
    /\ runs < MaxRuns
    /\ runs' = runs + 1
    /\ \/ \E ib \in initial_buyers_slider :
            Begin(ib, monthly_growth, meeting_fee, commission_rate,
                  commission_duration_months)
       \/ \E mg \in monthly_growth_slider :
            Begin(initial_buyers, mg, meeting_fee, commission_rate,
                  commission_duration_months)
       \/ \E mf \in meeting_fee_slider :
            Begin(initial_buyers, monthly_growth, mf, commission_rate,
                  commission_duration_months)
       \/ \E pct \in commission_rate_percent_slider :
            Begin(initial_buyers, monthly_growth, meeting_fee, CommissionRate(pct),
                  commission_duration_months)
       \/ \E yrs \in commission_duration_years_slider :
            Begin(initial_buyers, monthly_growth, meeting_fee, commission_rate,
                  CommissionDurationMonths(yrs))

\* One iteration of "for i, date in enumerate(dates)".
LoopStep ==
    /\ pc = "loop"
    /\ i < Len(dates)
    /\ LET m == Month(i, dates[i + 1], new_deals_history, initial_buyers, monthly_growth,
                      meeting_fee, commission_rate, commission_duration_months)
       IN  /\ new_deals_history' = m.history
           /\ simulation_data' = AppendRow(simulation_data, m.row)
           /\ loc' = <<m.names>>
    /\ i' = i + 1
    /\ pc' = IF i + 1 < Len(dates) THEN "loop" ELSE "kpi"
    /\ UNCHANGED <<runs, initial_buyers, monthly_growth, meeting_fee, commission_rate,
                   commission_duration_months, kpi>>

\* df = pd.DataFrame(simulation_data) and the KPI summary.
Kpi ==
    /\ pc = "kpi"
    /\ kpi' = <<KpiSummary(simulation_data)>>
    /\ pc' = "done"
    /\ UNCHANGED <<runs, initial_buyers, monthly_growth, meeting_fee, commission_rate,
                   commission_duration_months, i, simulation_data, new_deals_history, loc>>

\* The first execution of the script, inputs at any offered position.
Init ==
    /\ runs = 1
    /\ initial_buyers \in initial_buyers_slider
    /\ monthly_growth \in monthly_growth_slider
    /\ meeting_fee \in meeting_fee_slider
    /\ commission_rate \in {CommissionRate(pct) : pct \in commission_rate_percent_slider}
    /\ commission_duration_months \in
           {CommissionDurationMonths(yrs) : yrs \in commission_duration_years_slider}
    /\ simulation_data = <<>>
    /\ new_deals_history = <<>>
    /\ i = 0
    /\ loc = <<>>
    /\ kpi = <<>>
    /\ pc = IF Len(dates) = 0 THEN "kpi" ELSE "loop"

Next == Rerun \/ LoopStep \/ Kpi

Spec == Init /\ [][Next]_vars

-----------------------------------------------------------------------------
(* The engine on its own: lines 79-143 applied once to inputs that need    *)
(* not come from the sliders, among them zero and out-of-domain values.    *)

MaxShortDuration == 3

EngineBuyers == {-10, 0, 100}

EngineGrowth == {-1, 0, 3}

EngineFees == {-1, 0, 1}

EngineRates == {Rat(-1, 100), Rat(0, 1), Rat(1, 100)}

EngineDurations == {-1, 0} \cup (1..MaxShortDuration) \cup {12, 40}

InitEngine ==
    /\ runs = 1
    /\ initial_buyers \in EngineBuyers
    /\ monthly_growth \in EngineGrowth
    /\ meeting_fee \in EngineFees
    /\ commission_rate \in EngineRates
    /\ commission_duration_months \in EngineDurations
    /\ simulation_data = <<>>
    /\ new_deals_history = <<>>
    /\ i = 0
    /\ loc = <<>>
    /\ kpi = <<>>
    /\ pc = IF Len(dates) = 0 THEN "kpi" ELSE "loop"

NextEngine == LoopStep \/ Kpi

SpecEngine == InitEngine /\ [][NextEngine]_vars

-----------------------------------------------------------------------------
(* Properties.                                                             *)

TypeOK ==
    /\ pc \in {"loop", "kpi", "done"}
    /\ runs \in 1..MaxRuns
    /\ i \in 0..Len(dates)
    /\ Len(loc) <= 1
    /\ Len(kpi) <= 1

\* s[lo] + ... + s[hi], added from the right.
RECURSIVE RangeSumAcc(_, _, _, _)
RangeSumAcc(acc, s, lo, hi) ==
    IF acc.d > 0 /\ lo > hi THEN acc ELSE RangeSumAcc(Add(s[hi], acc), s, lo, hi - 1)

RangeSum(s, lo, hi) == RangeSumAcc(FromInt(0), s, lo, hi)

IsPrefix(s, t) == Len(s) <= Len(t) /\ SubSeq(t, 1, Len(s)) = s

Min(a, b) == IF a <= b THEN a ELSE b

\* C1: for every commission duration D >= 1 and every month index k, the
\* active recurring deals of month k are the sum of the new deals of months
\* max(0, k-D+1) .. k: min(k+1, D) entries, none later than k, and at month 0
\* the new deals of month 0 alone.
C1_WindowSum ==
    (commission_duration_months >= 1 /\ loc # <<>>) =>
        LET k == loc[1].month_idx
            D == commission_duration_months
            lo == Max(0, k - D + 1)
        IN  /\ Len(new_deals_history) = k + 1
            /\ loc[1].active_recurring_deals = RangeSum(new_deals_history, lo + 1, k + 1)
            /\ Len(new_deals_history) - loc[1].start_idx = Min(k + 1, D)
            /\ k = 0 => loc[1].active_recurring_deals = new_deals_history[1]
            /\ simulation_data[k + 1].CommissionRevenue =
                   Mul(Mul(RangeSum(new_deals_history, lo + 1, k + 1), FromInt(100000)),
                       commission_rate)

\* A month whose window has slid past a month with deals.
C1_Witness ==
    /\ commission_duration_months >= 1
    /\ loc # <<>>
    /\ loc[1].month_idx - commission_duration_months + 1 > 0
    /\ ~IsZero(new_deals_history[1])
    /\ loc[1].active_recurring_deals # Sum(new_deals_history)

\* C2: once the loop has finished there are exactly 36 records, record k
\* (counting from 0) dated the first of month Jan 2026 + k months, so Jan 2026
\* to Dec 2028 in strictly increasing order.
C2_Horizon ==
    pc \in {"kpi", "done"} =>
        /\ Len(simulation_data) = 36
        /\ \A k \in 1..Len(simulation_data) :
               simulation_data[k].Date =
                   [year |-> 2026 + ((k - 1) \div 12), month |-> ((k - 1) % 12) + 1,
                    day |-> 1]
        /\ \A k \in 1..(Len(simulation_data) - 1) :
               simulation_data[k].Date.year * 12 + simulation_data[k].Date.month
                   < simulation_data[k + 1].Date.year * 12 + simulation_data[k + 1].Date.month
        /\ simulation_data[1].YearMonth = <<"2", "0", "2", "6", "-", "0", "1">>
        /\ simulation_data[Len(simulation_data)].YearMonth
               = <<"2", "0", "2", "8", "-", "1", "2">>

C2_Witness == pc = "done" /\ Len(simulation_data) = 36

\* C3: in every month the monthly meetings are the active buyers times the
\* rate of the record's calendar year (3/12 in 2026, 6/12 in 2027, 10/12 in
\* 2028), which is 3/12 for months 0..11, 6/12 for 12..23, 10/12 for 24..35.
C3_TieredRate ==
    loc # <<>> =>
        LET k == loc[1].month_idx
            row == simulation_data[k + 1]
            byYear == IF row.Date.year = 2026 THEN Rat(3, 12)
                      ELSE IF row.Date.year = 2027 THEN Rat(6, 12)
                      ELSE Rat(10, 12)
            byIndex == IF k \in 0..11 THEN Rat(1, 4)
                       ELSE IF k \in 12..23 THEN Rat(1, 2)
                       ELSE Rat(5, 6)
        IN  /\ row.Date.year \in {2026, 2027, 2028}
            /\ byYear = byIndex
            /\ row.ActiveBuyers = initial_buyers + k * monthly_growth
            /\ loc[1].monthly_meetings = Mul(FromInt(row.ActiveBuyers), byYear)
            /\ row.MonthlyMeetings = Round1(Mul(FromInt(row.ActiveBuyers), byYear))
            /\ row.MeetingRevenue =
                   Mul(Mul(FromInt(row.ActiveBuyers), byYear), FromInt(meeting_fee))

\* A 2028 month whose meeting count is not a whole number of tenths.
C3_Witness ==
    /\ loc # <<>>
    /\ loc[1].month_idx >= 24
    /\ loc[1].monthly_meetings = Mul(FromInt(loc[1].current_buyers), Rat(10, 12))
    /\ simulation_data[loc[1].month_idx + 1].MonthlyMeetings # loc[1].monthly_meetings

OutOfDomain ==
    \/ initial_buyers < 0
    \/ monthly_growth < 0
    \/ meeting_fee < 0
    \/ commission_duration_months <= 0
    \/ ~(commission_rate.n > 0 /\ Leq(commission_rate, FromInt(1)))

FreshNewDeals(k) ==
    NewDeals(Mul(FromInt(CurrentBuyers(initial_buyers, k, monthly_growth)),
                 ActivityPerMonth(dates[k + 1].year)))

\* Record k (counting from 0) of an execution with the present inputs that
\* starts from empty lists.
FreshRow(k) ==
    Month(k, dates[k + 1], [j \in 1..k |-> FreshNewDeals(j - 1)], initial_buyers,
          monthly_growth, meeting_fee, commission_rate,
          commission_duration_months).row

\* C5: the records of an execution depend on its inputs alone: whatever
\* executions came before, it starts with both lists empty and every record it
\* emits is the record an execution from empty lists emits for these inputs.
C5_Deterministic ==
    /\ i = 0 => (simulation_data = <<>> /\ new_deals_history = <<>>)
    /\ Len(simulation_data) = i
    /\ i > 0 => simulation_data[i] = FreshRow(i - 1)
    /\ pc = "done" => simulation_data = [k \in 1..Len(dates) |-> FreshRow(k - 1)]

\* A later execution has completed.
C5_Witness == runs >= 2 /\ pc = "done" /\ Len(simulation_data) = 36

NonNegativeInputs ==
    /\ initial_buyers >= 0
    /\ monthly_growth >= 0
    /\ meeting_fee >= 0
    /\ commission_rate.n >= 0
    /\ commission_duration_months >= 1

\* C6: with initial buyers, growth, fee and rate all >= 0 and a duration >= 1,
\* every record has meeting, commission and total revenue >= 0, and its total
\* revenue is the meeting revenue plus the commission revenue.
C6_NonNegative ==
    NonNegativeInputs =>
        \A k \in 1..Len(simulation_data) :
            LET row == simulation_data[k]
            IN  /\ row.MeetingRevenue.n >= 0
                /\ row.CommissionRevenue.n >= 0
                /\ row.TotalRevenue.n >= 0
                /\ Leq(row.MeetingRevenue, row.TotalRevenue)
                /\ Leq(row.CommissionRevenue, row.TotalRevenue)
                /\ row.TotalRevenue.n * row.MeetingRevenue.d * row.CommissionRevenue.d
                       = row.TotalRevenue.d
                           * (row.MeetingRevenue.n * row.CommissionRevenue.d
                              + row.CommissionRevenue.n * row.MeetingRevenue.d)

C6_Witness ==
    /\ NonNegativeInputs
    /\ Len(simulation_data) = 36
    /\ simulation_data[36].MeetingRevenue.n > 0
    /\ simulation_data[36].CommissionRevenue.n > 0

\* C7: with no initial buyers and no growth, whatever the fee, rate and
\* duration, the run goes through the loop and the KPI summary to the end, and
\* every record has meetings, new deals and all three revenues equal to 0.
C7_ZeroRun ==
    (initial_buyers = 0 /\ monthly_growth = 0) =>
        /\ pc \in {"loop", "kpi", "done"}
        /\ Len(simulation_data) = i
        /\ pc \in {"kpi", "done"} => Len(simulation_data) = 36
        /\ pc = "done" => kpi # <<>>
        /\ \A x \in 1..Len(new_deals_history) : IsZero(new_deals_history[x])
        /\ loc # <<>> => (IsZero(loc[1].monthly_meetings) /\ IsZero(loc[1].new_deals))
        /\ \A k \in 1..Len(simulation_data) :
               /\ IsZero(simulation_data[k].MonthlyMeetings)
               /\ IsZero(simulation_data[k].NewDeals)
               /\ IsZero(simulation_data[k].MeetingRevenue)
               /\ IsZero(simulation_data[k].CommissionRevenue)
               /\ IsZero(simulation_data[k].TotalRevenue)

\* The zero run has ended; its 2028 commission share is 0/0.
C7_Witness ==
    /\ initial_buyers = 0
    /\ monthly_growth = 0
    /\ pc = "done"
    /\ Len(simulation_data) = 36
    /\ kpi[1].commission_share_2028.kind = "nan"

\* C8: the window sums the unrounded new deals: each history entry is the
\* month's full-precision buyers * rate * 0.2, and the active recurring deals
\* and the commission revenue are computed from those entries, not from the
\* one-decimal New Deals values kept in the records.
C8_FullPrecision ==
    loc # <<>> =>
        LET k == loc[1].month_idx
            lo == Max(0, k - commission_duration_months + 1)
            exact == Mul(Mul(FromInt(initial_buyers + k * monthly_growth),
                             loc[1].activity_per_month), Rat(1, 5))
        IN  /\ Len(new_deals_history) = k + 1
            /\ new_deals_history[k + 1] = exact
            /\ loc[1].new_deals = exact
            /\ 10 % simulation_data[k + 1].NewDeals.d = 0
            /\ Leq(Add(simulation_data[k + 1].NewDeals, Rat(-1, 20)), exact)
            /\ Leq(exact, Add(simulation_data[k + 1].NewDeals, Rat(1, 20)))
            /\ loc[1].active_recurring_deals = RangeSum(new_deals_history, lo + 1, k + 1)
            /\ simulation_data[k + 1].CommissionRevenue =
                   Mul(Mul(loc[1].active_recurring_deals, FromInt(100000)), commission_rate)

\* A month where rounding matters: the displayed New Deals values of the
\* window do not add up to the active recurring deals.
C8_Witness ==
    /\ loc # <<>>
    /\ simulation_data[loc[1].month_idx + 1].NewDeals # loc[1].new_deals
    /\ RangeSum([k \in 1..Len(simulation_data) |-> simulation_data[k].NewDeals],
                loc[1].start_idx + 1, Len(simulation_data))
           # loc[1].active_recurring_deals

\* C9: within one execution the history only grows at its end: iteration i
\* appends one entry at index i, leaving the history i+1 long, and no step
\* changes or removes an earlier entry or an emitted record.
C9_AppendOnly ==
    [][runs' = runs =>
         /\ IsPrefix(new_deals_history, new_deals_history')
         /\ IsPrefix(simulation_data, simulation_data')
         /\ i' = i + 1 => /\ Len(new_deals_history) = i
                          /\ Len(new_deals_history') = i + 1
                          /\ Len(simulation_data') = i + 1
         /\ i' = i => /\ new_deals_history' = new_deals_history
                      /\ simulation_data' = simulation_data]_vars

\* A run whose duration is shorter than the horizon has appended all 36 entries.
C9_Witness ==
    /\ pc = "done"
    /\ commission_duration_months < 36
    /\ Len(new_deals_history) = 36
    /\ Len(simulation_data) = 36

\* C10: for slider inputs the total revenue of the twelve 2028 records is
\* strictly positive, so the 2028 commission share is a finite number, between
\* 0 and 100 percent.
C10_SharePositive ==
    pc = "done" =>
        /\ Len(Rows2028(simulation_data)) = 12
        /\ kpi[1].revenue_2028.n > 0
        /\ kpi[1].commission_share_2028.kind = "finite"
        /\ Leq(FromInt(0), kpi[1].commission_share_2028.val)
        /\ Leq(kpi[1].commission_share_2028.val, FromInt(100))

C10_Witness ==
    /\ pc = "done"
    /\ kpi[1].commission_share_2028.kind = "finite"
    /\ kpi[1].commission_share_2028.val.n > 0
    /\ ~Leq(FromInt(100), kpi[1].commission_share_2028.val)

====
